---- MODULE Spec2Model ----
(***************************************************************************)
(* Model of the anchorpy client generator and of the clients it generates: *)
(*   - the generated account client (examples/client-gen/basic_2/accounts/ *)
(*     counter.py): Counter.fetch, Counter.fetch_multiple, Counter.decode;  *)
(*   - the generated error module (examples/client-gen/tictactoe/errors/   *)
(*     __init__.py): from_code, from_tx_error;                             *)
(*   - the instruction generator (src/anchorpy/clientgen/instructions.py): *)
(*     recurse_accounts, gen_accounts, gen_instructions_code.              *)
(*                                                                         *)
(* Every operation is a function of its inputs, so one action per          *)
(* operation draws the inputs from bounded sets, runs the whole body       *)
(* and records the call, its outcome (a returned value or a raised Python  *)
(* exception) and the order of the steps the body went through.            *)
(***************************************************************************)
EXTENDS Integers, Sequences, FiniteSets, TLC

VARIABLES op, input, outcome, trace

vars == <<op, input, outcome, trace>>

(***************************************************************************)
(* Python values                                                           *)
(***************************************************************************)

\* Python's None
None == [tag |-> "None"]

\* a call that returned v
Return(v) == [kind |-> "return", exc |-> "", value |-> v]

\* a call that raised the exception exc
Raise(exc) == [kind |-> "raise", exc |-> exc, value |-> None]

\* the set of sequences over S of length at most n
SeqUpTo(S, n) == UNION {[1..k -> S] : k \in 0..n}

Min(a, b) == IF a < b THEN a ELSE b

\* data[:n]
Take(s, n) == SubSeq(s, 1, Min(n, Len(s)))

\* data[n:]
Drop(s, n) == SubSeq(s, n + 1, Len(s))

RECURSIVE Concat(_)
\* the concatenation of a sequence of sequences
Concat(ss) == IF ss = <<>> THEN <<>> ELSE Head(ss) \o Concat(Tail(ss))

(***************************************************************************)
(* Bounds                                                                  *)
(***************************************************************************)

\* longest response of get_multiple_accounts
MaxInfos == 3

(***************************************************************************)
(* counter.py: the generated account client                                *)
(***************************************************************************)

\* str(PROGRAM_ID) of the basic_2 client (from ..program_id)
PROGRAM_ID == "Fg6PaFpoGXkYsidMpWTK6W2BeZ7FEfcYkg476zPFsLnS"

\* the owner of an account of another program
OtherProgram == "11111111111111111111111111111111"

ACCOUNT_DISCRIMINATOR_SIZE == 8

\* Counter.discriminator = b"\xff\xb0\x04\xf5\xbc\xfd|\x19"
discriminator == <<255, 176, 4, 245, 188, 253, 124, 25>>

\* width of "authority" / BorshPubkey
PubkeySize == 32

\* width of "count" / borsh.U64
U64Size == 8

RECURSIVE LEBytes(_, _)
\* borsh integer build: n as w little-endian bytes
LEBytes(n, w) == IF w = 0 THEN <<>> ELSE <<n % 256>> \o LEBytes(n \div 256, w - 1)

RECURSIVE LEInt(_)
\* borsh integer parse: the little-endian value of the bytes
LEInt(bs) == IF bs = <<>> THEN 0 ELSE Head(bs) + 256 * LEInt(Tail(bs))

\* the base64 padding symbol "="; the alphabet symbols are 0..63
B64Pad == 64

RECURSIVE B64Encode(_)
\* base64 of the account bytes, as the RPC node returns them in info["data"][0]
B64Encode(bs) ==
    IF Len(bs) = 0 THEN <<>>
    ELSE IF Len(bs) = 1 THEN
        <<bs[1] \div 4, (bs[1] % 4) * 16, B64Pad, B64Pad>>
    ELSE IF Len(bs) = 2 THEN
        <<bs[1] \div 4, (bs[1] % 4) * 16 + bs[2] \div 16, (bs[2] % 16) * 4, B64Pad>>
    ELSE <<bs[1] \div 4, (bs[1] % 4) * 16 + bs[2] \div 16,
           (bs[2] % 16) * 4 + bs[3] \div 64, bs[3] % 64>> \o B64Encode(Drop(bs, 3))

RECURSIVE b64decode(_)
\* base64.b64decode on a well-formed base64 string
b64decode(s) ==
    IF Len(s) < 4 THEN <<>>
    ELSE (IF s[3] = B64Pad THEN <<s[1] * 4 + s[2] \div 16>>
          ELSE IF s[4] = B64Pad THEN
              <<s[1] * 4 + s[2] \div 16, (s[2] % 16) * 16 + s[3] \div 4>>
          ELSE <<s[1] * 4 + s[2] \div 16, (s[2] % 16) * 16 + s[3] \div 4,
                 (s[3] % 4) * 64 + s[4]>>) \o b64decode(Drop(s, 4))

\* Counter.layout.parse: authority (32 bytes) then count (u64, little-endian);
\* construct raises StreamError when the stream ends early and ignores
\* bytes after the last field
layout_parse(bs) ==
    IF Len(bs) < PubkeySize + U64Size THEN Raise("StreamError")
    ELSE Return([authority |-> SubSeq(bs, 1, PubkeySize),
                 count |-> LEInt(SubSeq(bs, PubkeySize + 1, PubkeySize + U64Size))])

\* the steps Counter.decode goes through on data
decode_trace(data) ==
    IF Take(data, ACCOUNT_DISCRIMINATOR_SIZE) # discriminator
    THEN <<"check_discriminator">>
    ELSE <<"check_discriminator", "layout_parse">>

\* decode that compares one byte less than the discriminator has
decode_short_check(data) ==
    IF Take(data, ACCOUNT_DISCRIMINATOR_SIZE - 1)
           # Take(discriminator, ACCOUNT_DISCRIMINATOR_SIZE - 1)
    THEN Raise("AccountInvalidDiscriminator")
    ELSE LET dec == layout_parse(Drop(data, ACCOUNT_DISCRIMINATOR_SIZE))
         IN  IF dec.kind = "raise" THEN dec
             ELSE Return([authority |-> dec.value.authority,
                          count |-> dec.value.count])

\* Counter.decode
decode(data) ==
    IF Take(data, ACCOUNT_DISCRIMINATOR_SIZE) # discriminator
    THEN Raise("AccountInvalidDiscriminator")
    ELSE LET dec == layout_parse(Drop(data, ACCOUNT_DISCRIMINATOR_SIZE))
         IN  IF dec.kind = "raise" THEN dec
             ELSE Return([authority |-> dec.value.authority,
                          count |-> dec.value.count])

\* an account the RPC node reports: its owner and its data, base64-encoded
AccountInfo(owner, bs) ==
    [present |-> TRUE, owner |-> owner, data |-> <<B64Encode(bs), "base64">>]

\* the RPC node's value for an address that holds no account (JSON null)
AbsentInfo == [present |-> FALSE, owner |-> "", data |-> <<>>]

\* the steps Counter.fetch goes through on the response value info
fetch_trace(info) ==
    IF ~info.present THEN <<"absent">>
    ELSE IF info.owner # PROGRAM_ID THEN <<"owner_check">>
    ELSE <<"owner_check", "b64decode">> \o decode_trace(b64decode(info.data[1]))

\* fetch that decodes before it checks the owner
fetch_decode_first(info) ==
    IF ~info.present THEN Return(None)
    ELSE LET d == decode(b64decode(info.data[1]))
         IN  IF d.kind = "raise" THEN d
             ELSE IF info.owner # PROGRAM_ID THEN Raise("ValueError")
             ELSE d

\* Counter.fetch, from the response value on
fetch(info) ==
    IF ~info.present THEN Return(None)
    ELSE IF info.owner # PROGRAM_ID
    THEN Raise("ValueError")
    ELSE decode(b64decode(info.data[1]))

RECURSIVE fetch_multiple_loop(_, _)
\* the for loop of Counter.fetch_multiple over the rest of infos, res so far.
\* An absent info is appended as None and then the same iteration goes on to
\* info["owner"], which on None raises TypeError.
fetch_multiple_loop(infos, res) ==
    IF infos = <<>> THEN Return(res)
    ELSE LET info == Head(infos)
             res1 == IF ~info.present THEN Append(res, None) ELSE res
         IN  IF ~info.present THEN Raise("TypeError")
             ELSE IF info.owner # PROGRAM_ID THEN Raise("ValueError")
             ELSE LET d == decode(b64decode(info.data[1]))
                  IN  IF d.kind = "raise" THEN d
                      ELSE fetch_multiple_loop(Tail(infos), Append(res1, d.value))

RECURSIVE fetch_multiple_trace(_)
\* the steps of the for loop of Counter.fetch_multiple, one group per element
fetch_multiple_trace(infos) ==
    IF infos = <<>> THEN <<>>
    ELSE LET info == Head(infos)
         IN  IF ~info.present THEN <<"append_none", "owner_check">>
             ELSE IF info.owner # PROGRAM_ID THEN <<"owner_check">>
             ELSE LET d == decode(b64decode(info.data[1]))
                  IN  <<"owner_check", "b64decode", "decode">> \o
                      (IF d.kind = "raise" THEN <<>>
                       ELSE <<"append">> \o fetch_multiple_trace(Tail(infos)))

\* Counter.fetch_multiple, from the response value on
fetch_multiple(infos) == fetch_multiple_loop(infos, <<>>)

(***************************************************************************)
(* Inputs of the account client                                            *)
(***************************************************************************)

Authority1 == [i \in 1..PubkeySize |-> 1]
Authority2 == [i \in 1..PubkeySize |-> 2 * i]

\* count values stored in accounts
Counts == {0, 7, 258}

\* struct bytes of a Counter account
CounterBody(authority, count) == authority \o LEBytes(count, U64Size)

\* well-formed struct bytes
GoodBodies == {CounterBody(a, c) : a \in {Authority1, Authority2}, c \in Counts}

\* struct bytes decode is tried on: well-formed, empty, one byte short, with a
\* trailing byte, and shifted by one byte that equals the discriminator's last
Bodies ==
    GoodBodies \cup
    {<<>>, Take(CounterBody(Authority1, 7), PubkeySize + U64Size - 1),
     CounterBody(Authority2, 258) \o <<9>>,
     <<25>> \o CounterBody(Authority1, 7)}

\* 8-byte prefixes: the discriminator, one differing in the last byte, one
\* differing in the first byte; and short ones
Prefixes ==
    {discriminator,
     [discriminator EXCEPT ![8] = 24],
     [discriminator EXCEPT ![1] = 0],
     Take(discriminator, 7),
     <<>>}

\* byte strings handed to decode
DecodeInputs == {p \o b : p \in Prefixes, b \in Bodies}

\* account data found on chain
ChainData ==
    {discriminator \o b : b \in {CounterBody(Authority1, 7), CounterBody(Authority2, 258)}}
    \cup {[discriminator EXCEPT ![8] = 24] \o CounterBody(Authority1, 7)}

\* response values of get_account_info
Infos == {AbsentInfo} \cup {AccountInfo(o, d) : o \in {PROGRAM_ID, OtherProgram}, d \in ChainData}

(***************************************************************************)
(* Actions of the account client                                           *)
(***************************************************************************)

\* No state crosses calls: every call is made on the state after construction.
Init ==
    /\ op = "init"
    /\ input = <<>>
    /\ outcome = Return(None)
    /\ trace = <<>>

\* Counter.decode(data)
Decode ==
    \E data \in DecodeInputs :
        /\ op = "init"
        /\ op' = "decode"
        /\ input' = data
        /\ outcome' = decode(data)
        /\ trace' = decode_trace(data)

\* Counter.fetch(conn, address): the node answers info
Fetch ==
    \E info \in Infos :
        /\ op = "init"
        /\ op' = "fetch"
        /\ input' = info
        /\ outcome' = fetch(info)
        /\ trace' = fetch_trace(info)

\* Counter.fetch_multiple(conn, addresses): the node answers infos
FetchMultiple ==
    \E infos \in SeqUpTo(Infos, MaxInfos) :
        /\ op = "init"
        /\ op' = "fetch_multiple"
        /\ input' = infos
        /\ outcome' = fetch_multiple(infos)
        /\ trace' = fetch_multiple_trace(infos)

NextAccounts == Decode \/ Fetch \/ FetchMultiple

SpecAccounts == Init /\ [][NextAccounts]_vars

(***************************************************************************)
(* Properties of the account client                                        *)
(***************************************************************************)

Range(s) == {s[i] : i \in 1..Len(s)}

\* the account bytes of a present response value
InfoBytes(info) == b64decode(info.data[1])

\* the bytes start with the account discriminator
HasDiscriminator(bs) ==
    /\ Len(bs) >= ACCOUNT_DISCRIMINATOR_SIZE
    /\ SubSeq(bs, 1, ACCOUNT_DISCRIMINATOR_SIZE) = discriminator

\* C1: fetch_multiple, on a response whose present elements are all owned by
\* PROGRAM_ID and carry the discriminator, returns a list of the response's
\* length and order: None where the element is absent, decode of the element
\* otherwise; an absent element is recorded and never owner-checked or decoded.
C1_FetchMultipleKeepsAbsent ==
    (/\ op = "fetch_multiple"
     /\ \A i \in 1..Len(input) :
            input[i].present =>
                /\ input[i].owner = PROGRAM_ID
                /\ HasDiscriminator(InfoBytes(input[i])))
    => /\ outcome.kind = "return"
       /\ Len(outcome.value) = Len(input)
       /\ \A i \in 1..Len(input) :
            IF input[i].present
            THEN outcome.value[i] = decode(InfoBytes(input[i])).value
            ELSE outcome.value[i] = None
       /\ \A k \in 1..Len(trace) :
            (trace[k] = "append_none" /\ k < Len(trace)) =>
                trace[k + 1] \notin {"owner_check", "b64decode", "decode"}

\* C2: fetch decides in the order absence, owner, decode: an absent account
\* gives None without raising; a present account of another owner raises the
\* owner error before any decode, whatever its bytes; a decoded record is
\* only ever returned for an account owned by PROGRAM_ID.
C2_FetchAbsenceOwnerDecode ==
    op = "fetch" =>
        /\ ~input.present => (outcome = Return(None) /\ trace = <<"absent">>)
        /\ (input.present /\ input.owner # PROGRAM_ID) =>
                /\ outcome = Raise("ValueError")
                /\ "b64decode" \notin Range(trace)
                /\ "check_discriminator" \notin Range(trace)
        /\ (outcome.kind = "return" /\ outcome.value # None) =>
                /\ input.present
                /\ input.owner = PROGRAM_ID
        /\ (input.present /\ input.owner = PROGRAM_ID) =>
                /\ outcome = decode(InfoBytes(input))
                /\ Take(trace, 2) = <<"owner_check", "b64decode">>

\* C2 witness: an account of another program whose bytes carry the valid
\* discriminator was fetched, and the fetch raised
C2_Witness ==
    /\ op = "fetch"
    /\ input.present
    /\ input.owner # PROGRAM_ID
    /\ HasDiscriminator(InfoBytes(input))
    /\ outcome.kind = "raise"

\* C6: decode raises AccountInvalidDiscriminator, without parsing, on every
\* byte string whose first 8 bytes are not the discriminator (shorter strings
\* included); it returns a record only when they are, and then the record's
\* fields are the values found after the 8-byte prefix.
C6_DecodeChecksDiscriminator ==
    op = "decode" =>
        /\ ~HasDiscriminator(input) =>
                /\ outcome = Raise("AccountInvalidDiscriminator")
                /\ "layout_parse" \notin Range(trace)
        /\ HasDiscriminator(input) => outcome.exc # "AccountInvalidDiscriminator"
        /\ outcome.kind = "return" =>
                /\ HasDiscriminator(input)
                /\ Len(input) >= ACCOUNT_DISCRIMINATOR_SIZE + PubkeySize + U64Size
                /\ outcome.value.authority =
                       SubSeq(input, ACCOUNT_DISCRIMINATOR_SIZE + 1,
                              ACCOUNT_DISCRIMINATOR_SIZE + PubkeySize)
                /\ LEBytes(outcome.value.count, U64Size) =
                       SubSeq(input, ACCOUNT_DISCRIMINATOR_SIZE + PubkeySize + 1,
                              ACCOUNT_DISCRIMINATOR_SIZE + PubkeySize + U64Size)
        /\ (HasDiscriminator(input)
            /\ Len(input) >= ACCOUNT_DISCRIMINATOR_SIZE + PubkeySize + U64Size) =>
                outcome.kind = "return"

\* C6 witness: a full-length byte string with a wrong discriminator was
\* rejected
C6_Witness ==
    /\ op = "decode"
    /\ Len(input) = ACCOUNT_DISCRIMINATOR_SIZE + PubkeySize + U64Size
    /\ ~HasDiscriminator(input)
    /\ outcome.exc = "AccountInvalidDiscriminator"

(***************************************************************************)
(* errors/__init__.py: the generated error module                          *)
(***************************************************************************)

\* longest log list of an execution result
MaxLogs == 3

\* custom.from_code: the program's own errors (tictactoe), None when unknown
custom_from_code(code) ==
    CASE code = 6000 -> [table |-> "custom", code |-> 6000, name |-> "TileOutOfBounds"]
      [] code = 6001 -> [table |-> "custom", code |-> 6001, name |-> "TileAlreadySet"]
      [] code = 6002 -> [table |-> "custom", code |-> 6002, name |-> "GameAlreadyOver"]
      [] code = 6003 -> [table |-> "custom", code |-> 6003, name |-> "NotPlayersTurn"]
      [] code = 6004 -> [table |-> "custom", code |-> 6004, name |-> "GameAlreadyStarted"]
      [] OTHER -> None

\* anchor.from_code: the framework's errors, None when unknown
anchor_from_code(code) ==
    CASE code = 100 -> [table |-> "anchor", code |-> 100, name |-> "InstructionMissing"]
      [] code = 101 -> [table |-> "anchor", code |-> 101, name |-> "InstructionFallbackNotFound"]
      [] code = 2000 -> [table |-> "anchor", code |-> 2000, name |-> "ConstraintMut"]
      [] code = 3000 -> [table |-> "anchor", code |-> 3000, name |-> "AccountDiscriminatorAlreadySet"]
      [] code = 5000 -> [table |-> "anchor", code |-> 5000, name |-> "Deprecated"]
      [] OTHER -> None

\* the table from_code consults for code
from_code_trace(code) ==
    IF code >= 6000 THEN <<"custom.from_code">> ELSE <<"anchor.from_code">>

\* from_code with the boundary code sent to the framework table
from_code_above(code) ==
    IF code > 6000 THEN Return(custom_from_code(code))
    ELSE Return(anchor_from_code(code))

\* from_code
from_code(code) ==
    IF code >= 6000 THEN Return(custom_from_code(code))
    ELSE Return(anchor_from_code(code))

\* the characters of the words log lines are made of
Chars(tok) ==
    CASE   tok = "Program" ->
          <<"P", "r", "o", "g", "r", "a", "m">>
    []  tok = "Fg6PaFpoGXkYsidMpWTK6W2BeZ7FEfcYkg476zPFsLnS" ->
          <<"F", "g", "6", "P", "a", "F", "p", "o", "G", "X", "k", "Y", "s", "i", "d", "M", "p", "W", "T", "K", "6", "W", "2", "B", "e", "Z", "7", "F", "E", "f", "c", "Y", "k", "g", "4", "7", "6", "z", "P", "F", "s", "L", "n", "S">>
    []  tok = "11111111111111111111111111111111" ->
          <<"1", "1", "1", "1", "1", "1", "1", "1", "1", "1", "1", "1", "1", "1", "1", "1", "1", "1", "1", "1", "1", "1", "1", "1", "1", "1", "1", "1", "1", "1", "1", "1">>
    []  tok = "failed:" ->
          <<"f", "a", "i", "l", "e", "d", ":">>
    []  tok = "custom" ->
          <<"c", "u", "s", "t", "o", "m">>
    []  tok = "program" ->
          <<"p", "r", "o", "g", "r", "a", "m">>
    []  tok = "error:" ->
          <<"e", "r", "r", "o", "r", ":">>
    []  tok = "invoke" ->
          <<"i", "n", "v", "o", "k", "e">>
    []  tok = "[1]" ->
          <<"[", "1", "]">>
    []  tok = "log:" ->
          <<"l", "o", "g", ":">>
    []  tok = "0x1770" ->
          <<"0", "x", "1", "7", "7", "0">>
    []  tok = "0x1771" ->
          <<"0", "x", "1", "7", "7", "1">>
    []  tok = "1770" ->
          <<"1", "7", "7", "0">>
    []  tok = "0x64" ->
          <<"0", "x", "6", "4">>
    []  tok = "zz" ->
          <<"z", "z">>

HexDigits ==
    {"0", "1", "2", "3", "4", "5", "6", "7", "8", "9",
     "a", "b", "c", "d", "e", "f", "A", "B", "C", "D", "E", "F"}

Letters ==
    {"a", "b", "c", "d", "e", "f", "g", "h", "i", "j", "k", "l", "m", "n", "o",
     "p", "q", "r", "s", "t", "u", "v", "w", "x", "y", "z",
     "A", "B", "C", "D", "E", "F", "G", "H", "I", "J", "K", "L", "M", "N", "O",
     "P", "Q", "R", "S", "T", "U", "V", "W", "X", "Y", "Z"}

\* the characters \w matches
WordChars ==
    Letters \cup {"0", "1", "2", "3", "4", "5", "6", "7", "8", "9", "_"}

\* \w+ matches the whole word
IsWord(tok) ==
    /\ Chars(tok) # <<>>
    /\ \A i \in 1..Len(Chars(tok)) : Chars(tok)[i] \in WordChars

\* the value of one hexadecimal digit
HexValue(c) ==
    CASE c \in {"a", "A"} -> 10 [] c \in {"b", "B"} -> 11 [] c \in {"c", "C"} -> 12
      [] c \in {"d", "D"} -> 13 [] c \in {"e", "E"} -> 14 [] c \in {"f", "F"} -> 15
      [] c = "0" -> 0 [] c = "1" -> 1 [] c = "2" -> 2 [] c = "3" -> 3 [] c = "4" -> 4
      [] c = "5" -> 5 [] c = "6" -> 6 [] c = "7" -> 7 [] c = "8" -> 8 [] c = "9" -> 9

RECURSIVE HexDigitsValue(_, _)
\* the value of the digits cs after the digits of value acc
HexDigitsValue(cs, acc) ==
    IF cs = <<>> THEN acc ELSE HexDigitsValue(Tail(cs), 16 * acc + HexValue(Head(cs)))

\* Python's int(tok, 16) on a word without underscores: an optional 0x prefix,
\* then one or more hexadecimal digits; ValueError otherwise
int16(tok) ==
    LET cs == Chars(tok)
        ds == IF Len(cs) >= 2 /\ cs[1] = "0" /\ cs[2] \in {"x", "X"} THEN Drop(cs, 2) ELSE cs
    IN  IF ds # <<>> /\ \A i \in 1..Len(ds) : ds[i] \in HexDigits
        THEN Return(HexDigitsValue(ds, 0))
        ELSE Raise("ValueError")

\* re.match found nothing (Python's None)
NoMatch == [state |-> "none", groups |-> <<>>]

\* first_match before the loop assigns it
Unbound == [state |-> "unbound", groups |-> <<>>]

\* error_re.match(logline) for
\* "Program (\w+) failed: custom program error: (\w+)": anchored at the start
\* of the line only; a log line is the sequence of its space-separated words,
\* and the words in the place of a group are word characters throughout or
\* not at all
error_re_match(logline) ==
    IF /\ Len(logline) >= 7
       /\ logline[1] = "Program"
       /\ IsWord(logline[2])
       /\ logline[3] = "failed:"
       /\ logline[4] = "custom"
       /\ logline[5] = "program"
       /\ logline[6] = "error:"
       /\ IsWord(logline[7])
    THEN [state |-> "match", groups |-> <<logline[2], logline[7]>>]
    ELSE NoMatch

RECURSIVE scan_logs(_, _)
\* the for loop of from_tx_error: first_match after scanning logs, leaving at
\* the first line that matches
scan_logs(logs, first_match) ==
    IF logs = <<>> THEN first_match
    ELSE LET m == error_re_match(Head(logs))
         IN  IF m # NoMatch THEN m ELSE scan_logs(Tail(logs), m)

\* code_raw(16): code_raw is a str, and calling a str raises TypeError
call_code_raw(code_raw, arg) == Raise("TypeError")

\* from_tx_error; error is the execution result, has_logs says whether it has
\* the key "logs"
from_tx_error(error) ==
    IF ~error.has_logs THEN Return(None)
    ELSE LET first_match == scan_logs(error.logs, Unbound)
         IN  IF first_match = Unbound THEN Raise("UnboundLocalError")
             ELSE IF first_match = NoMatch THEN Return(None)
             ELSE LET program_id_raw == first_match.groups[1]
                      code_raw == first_match.groups[2]
                  IN  IF program_id_raw # PROGRAM_ID THEN Return(None)
                      ELSE LET called == call_code_raw(code_raw, 16)
                           IN  IF called.kind = "raise"
                               THEN (IF called.exc = "ValueError"
                                     THEN Return(None) ELSE called)
                               ELSE from_code(called.value)

(***************************************************************************)
(* Inputs of the error module                                              *)
(***************************************************************************)

\* error codes looked up
Codes == {0 - 1, 0, 100, 2000, 5000, 5999, 6000, 6001, 6004, 6005, 999999}

FailedLine(program, code) ==
    <<"Program", program, "failed:", "custom", "program", "error:", code>>

\* log lines: two that never match, failures of this program and of another
\* one, a code that is no number, and a failure line behind a prefix
LogLines ==
    {<<"Program", PROGRAM_ID, "invoke", "[1]">>,
     <<"Program", "log:", "custom", "program", "error:">>,
     FailedLine(PROGRAM_ID, "0x1770"),
     FailedLine(PROGRAM_ID, "0x1771"),
     FailedLine(PROGRAM_ID, "0x64"),
     FailedLine(OtherProgram, "0x1770"),
     FailedLine(PROGRAM_ID, "zz"),
     <<"log:">> \o FailedLine(PROGRAM_ID, "1770")}

\* execution results: without the key "logs", or with a list of log lines
TxErrors ==
    {[has_logs |-> FALSE, logs |-> <<>>]} \cup
    {[has_logs |-> TRUE, logs |-> ls] : ls \in SeqUpTo(LogLines, MaxLogs)}

(***************************************************************************)
(* Actions of the error module                                             *)
(***************************************************************************)

\* from_code(code)
FromCode ==
    \E code \in Codes :
        /\ op = "init"
        /\ op' = "from_code"
        /\ input' = code
        /\ outcome' = from_code(code)
        /\ trace' = from_code_trace(code)

\* from_tx_error(error)
FromTxError ==
    \E error \in TxErrors :
        /\ op = "init"
        /\ op' = "from_tx_error"
        /\ input' = error
        /\ outcome' = from_tx_error(error)
        /\ trace' = <<>>

NextErrors == FromCode \/ FromTxError

SpecErrors == Init /\ [][NextErrors]_vars

(***************************************************************************)
(* Properties of the error module                                          *)
(***************************************************************************)

\* the lines of logs that match the pattern, in order
MatchingLines(logs) == SelectSeq(logs, LAMBDA l : error_re_match(l) # NoMatch)

\* C4: from_tx_error never raises: without a logs key, with an empty log
\* list, with no matching line, with a first match of another program or with
\* a first match whose code is no integer, it returns None.
C4_FromTxErrorNeverRaises ==
    op = "from_tx_error" =>
        /\ outcome.kind = "return"
        /\ (\/ ~input.has_logs
            \/ MatchingLines(input.logs) = <<>>
            \/ MatchingLines(input.logs)[1][2] # PROGRAM_ID
            \/ int16(MatchingLines(input.logs)[1][7]).kind = "raise")
           => outcome = Return(None)

\* C8: from_tx_error looks at the first matching log line only, and when that
\* line names PROGRAM_ID and its code parses as an integer the result is
\* from_code of the parsed code.
C8_FromTxErrorFirstMatch ==
    (/\ op = "from_tx_error"
     /\ input.has_logs
     /\ MatchingLines(input.logs) # <<>>)
    => LET first == MatchingLines(input.logs)[1]
           code == int16(first[7])
       IN  /\ outcome = from_tx_error([has_logs |-> TRUE, logs |-> <<first>>])
           /\ (first[2] = PROGRAM_ID /\ code.kind = "return") =>
                  outcome = from_code(code.value)

\* C7: from_code looks a code >= 6000 up in the custom table only and a code
\* < 6000 in the framework table only (6000 custom, 5999 framework), and a
\* code the table does not know gives None.
C7_FromCodeBoundary ==
    op = "from_code" =>
        /\ outcome.kind = "return"
        /\ input >= 6000 =>
              /\ trace = <<"custom.from_code">>
              /\ outcome.value # None => outcome.value.table = "custom"
        /\ input < 6000 =>
              /\ trace = <<"anchor.from_code">>
              /\ outcome.value # None => outcome.value.table = "anchor"
        /\ outcome.value # None => outcome.value.code = input
        /\ input = 6000 =>
              outcome.value = [table |-> "custom", code |-> 6000, name |-> "TileOutOfBounds"]
        /\ input \in {5999, 6005, 999999} => outcome.value = None

\* C7 witness: the boundary code 6000 was looked up and gave the first custom
\* error
C7_Witness ==
    /\ op = "from_code"
    /\ input = 6000
    /\ outcome.value # None
    /\ outcome.value.table = "custom"

(***************************************************************************)
(* clientgen/instructions.py: the instruction generator                    *)
(***************************************************************************)

\* most account items (leaves and groups) in one instruction's account tree
MaxAccounts == 4

\* an _IdlAccount: a leaf account
IdlAccount(name, is_signer, is_mut) ==
    [kind |-> "account", name |-> name, is_signer |-> is_signer, is_mut |-> is_mut,
     accounts |-> <<>>]

\* an _IdlAccounts: a nested group of account items
IdlAccounts(name, accounts) ==
    [kind |-> "accounts", name |-> name, is_signer |-> FALSE, is_mut |-> FALSE,
     accounts |-> accounts]

\* isinstance(acc, _IdlAccounts)
IsIdlAccounts(acc) == acc.kind = "accounts"

\* pyheck.upper_camel on the names the IDLs use
upper_camel(name) ==
    CASE name = "pool" -> "Pool"
      [] name = "inner" -> "Inner"
      [] name = "initialize" -> "Initialize"
      [] name = "increment" -> "Increment"

\* an f-string of a computed part and a literal part
FStr(a, b) == <<a, b>>

\* _args_interface_name
_args_interface_name(ix_name) == FStr(upper_camel(ix_name), "Args")

\* _accounts_interface_name
_accounts_interface_name(ix_name) == FStr(upper_camel(ix_name), "Accounts")

\* genpy TypedParam(name, type)
TypedParam(name, type) == [name |-> name, type |-> type]

\* genpy TypedDict(name, params)
TypedDict(name, params) == [node |-> "TypedDict", name |-> name, params |-> params]

\* the text of one element of keys: AccountMeta(pubkey=accounts[..]..[..],
\* is_signer=.., is_writable=..); names are the keys of the accessor in order
AccountMetaText(names, is_signer, is_mut) ==
    [pubkey |-> names, is_signer |-> is_signer, is_writable |-> is_mut]

RECURSIVE recurse_accounts_flat(_, _)
\* recurse_accounts that descends with the caller's nested_names
recurse_accounts_flat(accs, nested_names) ==
    IF accs = <<>> THEN <<>>
    ELSE LET acc == Head(accs)
             names == Append(nested_names, acc.name)
         IN  (IF IsIdlAccounts(acc)
              THEN recurse_accounts_flat(acc.accounts, nested_names)
              ELSE <<AccountMetaText(names, acc.is_signer, acc.is_mut)>>)
             \o recurse_accounts_flat(Tail(accs), nested_names)

RECURSIVE recurse_accounts(_, _)
\* recurse_accounts: the elements of the first item, then those of the rest
recurse_accounts(accs, nested_names) ==
    IF accs = <<>> THEN <<>>
    ELSE LET acc == Head(accs)
             names == Append(nested_names, acc.name)
         IN  (IF IsIdlAccounts(acc)
              THEN recurse_accounts(acc.accounts, names)
              ELSE <<AccountMetaText(names, acc.is_signer, acc.is_mut)>>)
             \o recurse_accounts(Tail(accs), nested_names)

\* an Optional[list]: None, or the list given
NoList == [given |-> FALSE, list |-> <<>>]
SomeList(l) == [given |-> TRUE, list |-> l]

RECURSIVE gen_accounts(_, _, _)
RECURSIVE gen_accounts_loop(_, _, _)
\* the for loop of gen_accounts over the rest of idl_accs, with params and
\* extra_typeddicts_to_use so far
gen_accounts_loop(idl_accs, params, extra_typeddicts_to_use) ==
    IF idl_accs = <<>>
    THEN [params |-> params, extra |-> extra_typeddicts_to_use]
    ELSE LET acc == Head(idl_accs)
         IN  IF IsIdlAccounts(acc)
             THEN LET nested_acc_name == FStr(upper_camel(acc.name), "Nested")
                  IN  gen_accounts_loop(
                          Tail(idl_accs),
                          Append(params, TypedParam(acc.name, nested_acc_name)),
                          extra_typeddicts_to_use \o
                              gen_accounts(nested_acc_name, acc.accounts,
                                           SomeList(extra_typeddicts_to_use)))
             ELSE gen_accounts_loop(
                      Tail(idl_accs),
                      Append(params, TypedParam(acc.name, FStr("PublicKey", ""))),
                      extra_typeddicts_to_use)

\* gen_accounts
gen_accounts(name, idl_accs, extra_typeddicts) ==
    LET start == IF ~extra_typeddicts.given THEN <<>> ELSE extra_typeddicts.list
        done == gen_accounts_loop(idl_accs, <<>>, start)
    IN  <<TypedDict(name, done.params)>> \o done.extra

\* anchorpy.coder.common._sighash: the first 8 bytes of sha256("global:<name>")
_sighash(ix_name) ==
    CASE ix_name = "initialize" -> <<175, 175, 109, 31, 13, 152, 155, 237>>
      [] ix_name = "increment" -> <<11, 18, 104, 9, 104, 174, 59, 33>>

\* clientgen.common._py_type_from_idl on primitive types
_py_type_from_idl(idl, type) ==
    CASE type = "u8" -> FStr("int", "")
      [] type = "u16" -> FStr("int", "")
      [] type = "bool" -> FStr("bool", "")

\* clientgen.common._layout_for_type on primitive types: '"<name>" / borsh.<T>'
_layout_for_type(type, name) ==
    [name |-> name,
     layout |-> CASE type = "u8" -> "borsh.U8"
                  [] type = "u16" -> "borsh.U16"
                  [] type = "bool" -> "borsh.Bool"]

\* clientgen.common._field_to_encodable on primitive types:
\* '<val_prefix><name><val_suffix>'
_field_to_encodable(idl, arg, val_prefix, val_suffix) ==
    [prefix |-> val_prefix, name |-> arg.name, suffix |-> val_suffix]

\* clientgen.utils StrDictEntry(key, val)
StrDictEntry(key, val) == [key |-> key, val |-> val]

\* genpy Import, FromImport, ImportAs
Import(module) == [node |-> "Import", module |-> module, names |-> <<>>]
FromImport(module, names) == [node |-> "FromImport", module |-> module, names |-> names]
ImportAs(module, as) == [node |-> "ImportAs", module |-> module, names |-> <<as>>]

\* genpy Assign(target, value); a value is the kind of expression and its parts
Assign(target, expr, items) ==
    [node |-> "Assign", target |-> target, value |-> [expr |-> expr, items |-> items]]

\* genpy Return(value)
ReturnStmt(expr) ==
    [node |-> "Return", target |-> "", value |-> [expr |-> expr, items |-> <<>>]]

\* clientgen.utils Function(name, params, body, return type)
Function(name, params, body, returns) ==
    [node |-> "Function", name |-> name, params |-> params, body |-> body,
     returns |-> returns]

\* the args_interface_params the loop over ix.args collects
args_interface_params(idl, args) ==
    [i \in 1..Len(args) |-> TypedParam(args[i].name, _py_type_from_idl(idl, args[i].type))]

\* layout_items collected against the declaration order
layout_items_reversed(args) ==
    [i \in 1..Len(args) |->
        _layout_for_type(args[Len(args) + 1 - i].type, args[Len(args) + 1 - i].name)]

\* the layout_items the loop over ix.args collects
layout_items(args) ==
    [i \in 1..Len(args) |-> _layout_for_type(args[i].type, args[i].name)]

\* the encoded_args_entries the loop over ix.args collects
encoded_args_entries(idl, args) ==
    [i \in 1..Len(args) |->
        StrDictEntry(args[i].name, _field_to_encodable(idl, args[i], "args[\"", "\"]"))]

\* the imports every generated instruction file starts with
gen_imports(idl) ==
    <<Import("typing"),
      FromImport("solana.publickey", <<"PublicKey">>),
      FromImport("solana.transaction", <<"TransactionInstruction", "AccountMeta">>),
      ImportAs("borsh_construct", "borsh")>>
    \o (IF idl.types # <<>> THEN <<FromImport("..", <<"types">>)>> ELSE <<>>)
    \o <<FromImport("..program_id", <<"PROGRAM_ID">>)>>

\* Path arithmetic: (out / ix.name).with_suffix(".py")
Filename(out, ix_name) == <<out, ix_name, ".py">>

\* the body of the loop of gen_instructions_code: the contents of the file
\* generated for the instruction ix
gen_instruction(idl, ix) ==
    LET accounts_interface_name == _accounts_interface_name(ix.name)
        has_args == ix.args # <<>>
        args_interface_name == _args_interface_name(ix.name)
        args_interface_container ==
            IF has_args
            THEN <<TypedDict(args_interface_name, args_interface_params(idl, ix.args))>>
            ELSE <<>>
        layout_assignment_container ==
            IF has_args
            THEN <<Assign("layout", "borsh.CStruct", layout_items(ix.args))>>
            ELSE <<>>
        args_container ==
            IF has_args THEN <<TypedParam("args", args_interface_name)>> ELSE <<>>
        accounts_container ==
            IF has_args THEN <<TypedParam("accounts", accounts_interface_name)>> ELSE <<>>
        accounts == gen_accounts(accounts_interface_name, ix.accounts, NoList)
        keys_assignment == Assign("keys", "List", recurse_accounts(ix.accounts, <<>>))
        identifier_assignment == Assign("identifier", "bytes", _sighash(ix.name))
        encoded_args_assignment ==
            Assign("encoded_args", "layout.build", encoded_args_entries(idl, ix.args))
        data_assignment == Assign("data", "identifier + encoded_args", <<>>)
        returning == ReturnStmt("TransactionInstruction(data, keys, PROGRAM_ID)")
        ix_fn == Function(ix.name,
                          args_container \o accounts_container,
                          <<keys_assignment, identifier_assignment,
                            encoded_args_assignment, data_assignment, returning>>,
                          "TransactionInstruction")
    IN  gen_imports(idl) \o args_interface_container \o layout_assignment_container
        \o accounts \o <<ix_fn>>

\* the empty dict
EmptyDict == [k \in {} |-> <<>>]

RECURSIVE gen_instructions_loop(_, _, _, _)
\* the for loop of gen_instructions_code over the rest of idl.instructions;
\* result[filename] = contents replaces an earlier entry of the same filename
gen_instructions_loop(idl, out, ixs, result) ==
    IF ixs = <<>> THEN result
    ELSE gen_instructions_loop(
             idl, out, Tail(ixs),
             (Filename(out, Head(ixs).name) :> gen_instruction(idl, Head(ixs))) @@ result)

\* gen_instructions_code
gen_instructions_code(idl, out) ==
    gen_instructions_loop(idl, out, idl.instructions, EmptyDict)

(***************************************************************************)
(* Running a generated instruction constructor                             *)
(***************************************************************************)

\* borsh build of one value by the layout named in the generated text
borsh_build(layout, v) ==
    CASE layout = "borsh.U8" -> LEBytes(v, 1)
      [] layout = "borsh.U16" -> LEBytes(v, 2)
      [] layout = "borsh.Bool" -> <<IF v THEN 1 ELSE 0>>

\* the names a generated file binds at module level
ModuleNames(contents) ==
    {contents[i].target : i \in {j \in 1..Len(contents) : contents[j].node = "Assign"}}

RECURSIVE Lookup(_, _)
\* accounts["a"]["b"]..: the value of the nested map at the path
Lookup(map, path) ==
    IF path = <<>> THEN Return(map)
    ELSE IF Head(path) \notin DOMAIN map THEN Raise("KeyError")
    ELSE Lookup(map[Head(path)], Tail(path))

RECURSIVE eval_keys(_, _)
\* evaluates the elements of the keys list, left to right
eval_keys(items, env) ==
    IF items = <<>> THEN Return(<<>>)
    ELSE IF "accounts" \notin DOMAIN env THEN Raise("NameError")
    ELSE LET pk == Lookup(env["accounts"], Head(items).pubkey)
             rest == eval_keys(Tail(items), env)
         IN  IF pk.kind = "raise" THEN pk
             ELSE IF rest.kind = "raise" THEN rest
             ELSE Return(<<[pubkey |-> pk.value,
                            is_signer |-> Head(items).is_signer,
                            is_writable |-> Head(items).is_writable]>> \o rest.value)

RECURSIVE eval_entries(_, _)
\* evaluates the dict display handed to layout.build, entry by entry
eval_entries(entries, env) ==
    IF entries = <<>> THEN Return(EmptyDict)
    ELSE IF "args" \notin DOMAIN env THEN Raise("NameError")
    ELSE IF Head(entries).val.name \notin DOMAIN env["args"] THEN Raise("KeyError")
    ELSE LET rest == eval_entries(Tail(entries), env)
         IN  IF rest.kind = "raise" THEN rest
             ELSE Return(rest.value @@
                         (Head(entries).key :> env["args"][Head(entries).val.name]))

RECURSIVE cstruct_build(_, _)
\* borsh.CStruct(items).build(obj): the fields in the order of the layout
cstruct_build(items, obj) ==
    IF items = <<>> THEN Return(<<>>)
    ELSE IF Head(items).name \notin DOMAIN obj THEN Raise("KeyError")
    ELSE LET rest == cstruct_build(Tail(items), obj)
         IN  IF rest.kind = "raise" THEN rest
             ELSE Return(borsh_build(Head(items).layout, obj[Head(items).name])
                         \o rest.value)

\* evaluates the right-hand side of one generated statement in env
eval_expr(value, env) ==
    CASE value.expr = "List" -> eval_keys(value.items, env)
      [] value.expr = "bytes" -> Return(value.items)
      [] value.expr = "layout.build" ->
            IF "layout" \notin DOMAIN env THEN Raise("NameError")
            ELSE LET obj == eval_entries(value.items, env)
                 IN  IF obj.kind = "raise" THEN obj
                     ELSE cstruct_build(env["layout"], obj.value)
      [] value.expr = "identifier + encoded_args" ->
            Return(env["identifier"] \o env["encoded_args"])
      [] value.expr = "TransactionInstruction(data, keys, PROGRAM_ID)" ->
            Return([data |-> env["data"], keys |-> env["keys"],
                    program_id |-> PROGRAM_ID])

RECURSIVE exec_body(_, _)
\* runs the statements of the generated function body in order
exec_body(stmts, env) ==
    IF stmts = <<>> THEN Return(None)
    ELSE LET v == eval_expr(Head(stmts).value, env)
         IN  IF v.kind = "raise" THEN v
             ELSE IF Head(stmts).node = "Return" THEN v
             ELSE exec_body(Tail(stmts), (Head(stmts).target :> v.value) @@ env)

\* the module-level layout of a generated file, as a name binding
ModuleEnv(contents) ==
    IF "layout" \in ModuleNames(contents)
    THEN LET i == CHOOSE j \in 1..Len(contents) :
                     contents[j].node = "Assign" /\ contents[j].target = "layout"
         IN  ("layout" :> contents[i].value.items)
    ELSE EmptyDict

\* a call of the constructor a generated file defines, with the positional
\* arguments passed; Python raises TypeError when their number is not the
\* number of parameters
call_ix(contents, passed) ==
    LET ix_fn == contents[Len(contents)]
    IN  IF Len(passed) # Len(ix_fn.params) THEN Raise("TypeError")
        ELSE exec_body(ix_fn.body,
                       [n \in {ix_fn.params[i].name : i \in 1..Len(passed)} |->
                           passed[CHOOSE i \in 1..Len(passed) : ix_fn.params[i].name = n]]
                       @@ ModuleEnv(contents))

\* the position in accs of the item called n
IndexOfName(accs, n) == CHOOSE i \in 1..Len(accs) : accs[i].name = n

RECURSIVE AccountsMap(_, _)
\* the accounts map a caller passes for the tree accs: one key per leaf, one
\* nested map per group
AccountsMap(accs, names) ==
    [n \in {accs[i].name : i \in 1..Len(accs)} |->
        LET acc == accs[IndexOfName(accs, n)]
        IN  IF IsIdlAccounts(acc)
            THEN AccountsMap(acc.accounts, Append(names, n))
            ELSE [pubkey |-> Append(names, n)]]

(***************************************************************************)
(* Inputs of the instruction generator                                     *)
(***************************************************************************)

\* leaf accounts
LeafAccounts ==
    {IdlAccount("poolAuthority", TRUE, FALSE),
     IdlAccount("vaultA", FALSE, TRUE),
     IdlAccount("vaultB", FALSE, FALSE)}

\* names of nested groups
GroupNames == {"pool", "inner"}

\* the items of accs have distinct names, as the keys of one accounts map do
DistinctNames(accs) ==
    \A i, j \in 1..Len(accs) : accs[i].name = accs[j].name => i = j

RECURSIVE AccountItems(_)
RECURSIVE AccountLists(_)
\* the account items made of exactly n items, itself included
AccountItems(n) ==
    IF n = 1 THEN LeafAccounts \cup {IdlAccounts(g, <<>>) : g \in GroupNames}
    ELSE {IdlAccounts(g, accs) : g \in GroupNames, accs \in AccountLists(n - 1)}

\* the lists of account items made of exactly n items in all
AccountLists(n) ==
    IF n = 0 THEN {<<>>}
    ELSE UNION {{accs \in {<<acc>> \o rest : acc \in AccountItems(k),
                                            rest \in AccountLists(n - k)} :
                    DistinctNames(accs)} : k \in 1..n}

\* the account trees of instructions
AccountTrees == UNION {AccountLists(n) : n \in 0..MaxAccounts}

\* most arguments of an instruction
MaxArgs == 2

\* most instructions of an IDL
MaxInstructions == 1

\* argument fields of instructions
ArgFields ==
    {[name |-> "tile", type |-> "u8"],
     [name |-> "amount", type |-> "u16"],
     [name |-> "flag", type |-> "bool"]}

\* argument lists: fields of distinct names in any order
ArgLists == {args \in SeqUpTo(ArgFields, MaxArgs) : DistinctNames(args)}

\* account trees of the instructions of the generated IDLs
IxAccountTrees ==
    {<<>>,
     <<IdlAccount("vaultA", FALSE, TRUE)>>,
     <<IdlAccount("poolAuthority", TRUE, FALSE),
       IdlAccounts("pool", <<IdlAccount("vaultA", FALSE, TRUE),
                             IdlAccount("vaultB", FALSE, FALSE)>>)>>}

Instructions ==
    {[name |-> n, args |-> args, accounts |-> accs] :
        n \in {"initialize", "increment"}, args \in ArgLists, accs \in IxAccountTrees}

\* IDL documents: with or without declared types, instructions of distinct names
Idls ==
    {[types |-> t, instructions |-> ixs] :
        t \in {<<>>, <<"Game">>},
        ixs \in {l \in SeqUpTo(Instructions, MaxInstructions) : DistinctNames(l)}}

\* the argument records callers pass
ArgValues ==
    {[tile |-> 7, amount |-> 258, flag |-> TRUE],
     [tile |-> 255, amount |-> 513, flag |-> FALSE]}

\* the positional arguments of a call: none, accounts, or args and accounts
CallShapes == {<<>>, <<"accounts">>, <<"args", "accounts">>}

(***************************************************************************)
(* Actions of the instruction generator                                    *)
(***************************************************************************)

\* recurse_accounts(ix.accounts, [])
RecurseAccounts ==
    \E accs \in AccountTrees :
        /\ op = "init"
        /\ op' = "recurse_accounts"
        /\ input' = accs
        /\ outcome' = Return(recurse_accounts(accs, <<>>))
        /\ trace' = <<>>

\* gen_accounts(accounts_interface_name, ix.accounts)
GenAccounts ==
    \E accs \in AccountTrees, ix_name \in {"initialize"} :
        /\ op = "init"
        /\ op' = "gen_accounts"
        /\ input' = [name |-> _accounts_interface_name(ix_name), idl_accs |-> accs]
        /\ outcome' = Return(gen_accounts(_accounts_interface_name(ix_name), accs, NoList))
        /\ trace' = <<>>

\* gen_instructions_code(idl, out)
GenInstructionsCode ==
    \E idl \in Idls :
        /\ op = "init"
        /\ op' = "gen_instructions_code"
        /\ input' = [idl |-> idl, out |-> "instructions"]
        /\ outcome' = Return(gen_instructions_code(idl, "instructions"))
        /\ trace' = <<>>

\* a caller imports a generated file and calls its constructor
CallInstruction ==
    /\ op = "gen_instructions_code"
    /\ \E i \in 1..Len(input.idl.instructions), shape \in CallShapes, args \in ArgValues :
        LET ix == input.idl.instructions[i]
            contents == outcome.value[Filename(input.out, ix.name)]
            passed == [k \in 1..Len(shape) |->
                          IF shape[k] = "args" THEN args
                          ELSE AccountsMap(ix.accounts, <<>>)]
        IN  /\ op' = "call_ix"
            /\ input' = [ix |-> ix, contents |-> contents, shape |-> shape, args |-> args]
            /\ outcome' = call_ix(contents, passed)
            /\ trace' = <<>>

NextGen == RecurseAccounts \/ GenAccounts \/ GenInstructionsCode \/ CallInstruction

SpecGen == Init /\ [][NextGen]_vars

Next == NextAccounts \/ NextErrors \/ NextGen

Spec == Init /\ [][Next]_vars

(***************************************************************************)
(* Properties of the instruction generator                                 *)
(***************************************************************************)

\* no account item
NoItem == [kind |-> "none", name |-> "", is_signer |-> FALSE, is_mut |-> FALSE,
           accounts |-> <<>>]

\* the position in accs of the item called name, 0 when there is none
IndexOf(accs, name) ==
    IF \E i \in 1..Len(accs) : accs[i].name = name
    THEN CHOOSE i \in 1..Len(accs) : accs[i].name = name
    ELSE 0

RECURSIVE Resolve(_, _)
\* the item of the tree accs that the path of names leads to
Resolve(accs, path) ==
    LET i == IndexOf(accs, Head(path))
    IN  IF i = 0 THEN NoItem
        ELSE IF Len(path) = 1 THEN accs[i]
        ELSE IF IsIdlAccounts(accs[i]) THEN Resolve(accs[i].accounts, Tail(path))
        ELSE NoItem

RECURSIVE Positions(_, _)
\* the declaration positions along path, one per level
Positions(accs, path) ==
    LET i == IndexOf(accs, Head(path))
    IN  IF i = 0 \/ Len(path) = 1 THEN <<i>>
        ELSE <<i>> \o Positions(accs[i].accounts, Tail(path))

RECURSIVE Before(_, _)
\* p comes before q in pre-order; neither is a prefix of the other
Before(p, q) ==
    /\ p # <<>>
    /\ q # <<>>
    /\ \/ Head(p) < Head(q)
       \/ Head(p) = Head(q) /\ Before(Tail(p), Tail(q))

RECURSIVE NumLeaves(_)
\* the number of leaf accounts in the tree
NumLeaves(accs) ==
    IF accs = <<>> THEN 0
    ELSE (IF IsIdlAccounts(Head(accs)) THEN NumLeaves(Head(accs).accounts) ELSE 1)
         + NumLeaves(Tail(accs))

RECURSIVE Groups(_)
\* the nested groups of the tree, at any depth
Groups(accs) ==
    IF accs = <<>> THEN <<>>
    ELSE (IF IsIdlAccounts(Head(accs))
          THEN <<Head(accs)>> \o Groups(Head(accs).accounts) ELSE <<>>)
         \o Groups(Tail(accs))

\* C5: recurse_accounts flattens the tree depth-first in declaration order:
\* one entry per leaf and none for a group, in pre-order, each entry
\* addressing the accounts map by the leaf's full path and carrying the
\* leaf's is_signer and is_mut.
C5_RecurseAccountsFlattens ==
    op = "recurse_accounts" =>
        LET out == outcome.value
        IN  /\ Len(out) = NumLeaves(input)
            /\ \A i \in 1..Len(out) :
                  LET leaf == Resolve(input, out[i].pubkey)
                  IN  /\ leaf.kind = "account"
                      /\ out[i].is_signer = leaf.is_signer
                      /\ out[i].is_writable = leaf.is_mut
            /\ \A i, j \in 1..Len(out) :
                  i < j => Before(Positions(input, out[i].pubkey),
                                  Positions(input, out[j].pubkey))

\* C5 witness: the tree {poolAuthority, pool: {vaultA, vaultB}} was flattened
\* to [poolAuthority, pool.vaultA, pool.vaultB]
C5_Witness ==
    /\ op = "recurse_accounts"
    /\ input = <<IdlAccount("poolAuthority", TRUE, FALSE),
                 IdlAccounts("pool", <<IdlAccount("vaultA", FALSE, TRUE),
                                       IdlAccount("vaultB", FALSE, FALSE)>>)>>
    /\ outcome.value = <<AccountMetaText(<<"poolAuthority">>, TRUE, FALSE),
                         AccountMetaText(<<"pool", "vaultA">>, FALSE, TRUE),
                         AccountMetaText(<<"pool", "vaultB">>, FALSE, FALSE)>>

\* C10: gen_accounts returns one record definition per account group: the
\* root's first, then one for each nested group at any depth, none twice.
C10_GenAccountsOnePerGroup ==
    op = "gen_accounts" =>
        LET out == outcome.value
            groups == Groups(input.idl_accs)
        IN  /\ Len(out) = 1 + Len(groups)
            /\ out[1].name = input.name
            /\ \A g \in 1..Len(groups) :
                  \E i \in 2..Len(out) :
                      out[i].name = FStr(upper_camel(groups[g].name), "Nested")

\* the nodes of one kind in a generated file, in order
NodesOf(contents, kind) == SelectSeq(contents, LAMBDA n : n.node = kind)

\* the names of a sequence of named things, in order
NamesOf(xs) == [i \in 1..Len(xs) |-> xs[i].name]

\* the statement of a generated function body that assigns target
BodyAssign(ix_fn, target) ==
    ix_fn.body[CHOOSE i \in 1..Len(ix_fn.body) : ix_fn.body[i].target = target]

\* the borsh encoding of a value of an IDL primitive type
EncodeArg(type, v) ==
    CASE type = "u8" -> <<v>>
      [] type = "u16" -> <<v % 256, v \div 256>>
      [] type = "bool" -> <<IF v THEN 1 ELSE 0>>

\* C3: for an instruction with args = [] no args record and no args layout
\* is generated, the constructor takes exactly the parameter accounts, and
\* the data it builds is the 8-byte discriminator and nothing else.
C3_NoArgsInstruction ==
    /\ op = "gen_instructions_code" =>
          \A i \in 1..Len(input.idl.instructions) :
              LET ix == input.idl.instructions[i]
                  contents == outcome.value[Filename(input.out, ix.name)]
                  ix_fn == contents[Len(contents)]
              IN  ix.args = <<>> =>
                    /\ \A k \in 1..Len(contents) :
                          contents[k].node = "TypedDict" =>
                              contents[k].name # _args_interface_name(ix.name)
                    /\ "layout" \notin ModuleNames(contents)
                    /\ ix_fn.params =
                          <<TypedParam("accounts", _accounts_interface_name(ix.name))>>
    /\ (op = "call_ix" /\ input.ix.args = <<>> /\ input.shape = <<"accounts">>) =>
          /\ outcome.kind = "return"
          /\ outcome.value.data = _sighash(input.ix.name)

\* C9: for an instruction with arguments, the args record fields, the layout
\* fields and the encoded-args entries are the IDL's args in declaration
\* order, one of each per argument, and the constructor builds data as the
\* discriminator followed by the encoding of the args and nothing else.
C9_ArgsInDeclarationOrder ==
    /\ op = "gen_instructions_code" =>
          \A i \in 1..Len(input.idl.instructions) :
              LET ix == input.idl.instructions[i]
                  contents == outcome.value[Filename(input.out, ix.name)]
                  ix_fn == contents[Len(contents)]
                  records == SelectSeq(NodesOf(contents, "TypedDict"),
                                       LAMBDA n : n.name = _args_interface_name(ix.name))
                  layouts == SelectSeq(NodesOf(contents, "Assign"),
                                       LAMBDA n : n.target = "layout")
                  entries == BodyAssign(ix_fn, "encoded_args").value.items
              IN  ix.args # <<>> =>
                    /\ Len(records) = 1
                    /\ NamesOf(records[1].params) = NamesOf(ix.args)
                    /\ Len(layouts) = 1
                    /\ NamesOf(layouts[1].value.items) = NamesOf(ix.args)
                    /\ [k \in 1..Len(entries) |-> entries[k].key] = NamesOf(ix.args)
                    /\ [k \in 1..Len(entries) |-> entries[k].val.name] = NamesOf(ix.args)
                    /\ NamesOf(ix_fn.params) = <<"args", "accounts">>
    /\ (op = "call_ix" /\ input.ix.args # <<>> /\ input.shape = <<"args", "accounts">>) =>
          /\ outcome.kind = "return"
          /\ outcome.value.data =
                _sighash(input.ix.name) \o
                Concat([k \in 1..Len(input.ix.args) |->
                           EncodeArg(input.ix.args[k].type,
                                     input.args[input.ix.args[k].name])])

\* C9 witness: a constructor generated for an instruction with two arguments
\* was called with args and accounts and returned an instruction
C9_Witness ==
    /\ op = "call_ix"
    /\ Len(input.ix.args) = 2
    /\ input.shape = <<"args", "accounts">>
    /\ outcome.kind = "return"
    /\ Len(outcome.value.data) > Len(_sighash(input.ix.name))

====
